---- MODULE Spec2Model ----
(***************************************************************************)
(* Verification model of the row iterators of the Git-as-tables engine:    *)
(* the tree_entries table (full scan, tree_hash point lookup, index key    *)
(* value iterator, index lookup), the Sort plan node and the squashed      *)
(* tree_entries/blobs join; and of the session with its bblfsh client,     *)
(* parseDirectory, the catalog and the comparison expressions.             *)
(*                                                                         *)
(* Scale: a hash is one byte instead of twenty, written as two hexadecimal *)
(* digits.  A text is a sequence of character codes: 0..15 are the         *)
(* hexadecimal digits, NonHex is any other character.                      *)
(***************************************************************************)
EXTENDS Integers, Sequences, FiniteSets, TLC

VARIABLES
    pool,        \* RepositoryPool: repository id -> repository
    live,        \* which tree_entries iterator is open
    scanIter,    \* treeEntryIter
    byHashIter,  \* treeEntriesByHashIter
    kvIter,      \* treeEntriesKeyValueIter
    indexIter,   \* treeEntriesIndexIter
    saved,       \* (values, locator) pairs the index driver saved
    lookup,      \* the value tuple the index was asked for
    out,         \* rows (or pairs) the open iterator has returned so far
    last,        \* result of the last Next call of the open iterator
    ctxDone,     \* whether the context of the query was cancelled
    closes,      \* Close calls of the index iterator and the Close calls it made,
                 \* object decoders open and opened so far
    sort,        \* the Sort node: sortFields and the rows and errors its child yields
    childPos,    \* how many items the child iterator of the Sort has yielded
    sortIter,    \* sortIter: sortedRows and idx; open once RowIter was called
    sortOut,     \* rows the sortIter has returned so far
    sortLast,    \* result of the last sortIter.Next
    pulled,      \* whether the last sortIter.Next called the child's Next
    query,       \* the join query both engines run: join condition and filter
    joinIter,    \* root iterator of the engine without the squash-joins rule
    squashIter,  \* root iterator of the engine with the squash-joins rule
    joinOut,     \* rows the engine without the rule has returned
    squashOut,   \* rows the engine with the rule has returned
    joinLast,    \* result of the last Next of the engine without the rule
    squashLast,  \* result of the last Next of the engine with the rule
    session,     \* Session: bblfshMu, bblfshClient, and whether Close has returned
    openClients, \* how many bblfsh clients the session created are open
    calls,       \* per goroutine: the Session method it runs and its locals
    dir,         \* a --directory argument and what parseDirectory returned for it
    catalog,     \* Catalog.Databases
    found,       \* the arguments and the results of the last Catalog.Table call
    expr         \* a row of two values of one type and what the comparisons evaluated to

treeVars == <<pool, live, scanIter, byHashIter, kvIter, indexIter, saved, lookup, out, last,
              ctxDone, closes>>

sortVars == <<sort, childPos, sortIter, sortOut, sortLast, pulled>>

squashVars == <<query, joinIter, squashIter, joinOut, squashOut, joinLast, squashLast>>

sessionVars == <<session, openClients, calls>>

catalogVars == <<catalog, found>>

vars == <<treeVars, sortVars, squashVars, sessionVars, dir, catalogVars, expr>>

\* what the operations of one component leave alone
notTree == <<sortVars, squashVars, sessionVars, dir, catalogVars, expr>>
notSort == <<treeVars, squashVars, sessionVars, dir, catalogVars, expr>>
notSquash == <<treeVars, sortVars, sessionVars, dir, catalogVars, expr>>
notSession == <<treeVars, sortVars, squashVars, dir, catalogVars, expr>>
notDir == <<treeVars, sortVars, squashVars, sessionVars, catalogVars, expr>>
notCatalog == <<treeVars, sortVars, squashVars, sessionVars, dir, expr>>
notExpr == <<treeVars, sortVars, squashVars, sessionVars, dir, catalogVars>>

----------------------------------------------------------------------------
(* Bounds *)

\* most tree_hash values one query pushes down
MaxHashes == 3
\* most rows and errors the child of a Sort yields
MaxChild == 3
\* most Close calls on one iterator
MaxCloses == 2
\* most key=value pairs in the query of a directory URI
MaxPairs == 2
\* most databases in a catalog
MaxDatabases == 2

----------------------------------------------------------------------------
(* Values *)

NonHex == 16
ZeroHash == 0
HashBytes == 1

\* plumbing.Hash.String(): lower-case hexadecimal, two digits per byte
HashString(h) == <<h \div 16, h % 16>>

\* hex.DecodeString: the bytes decoded before the first invalid pair
RECURSIVE DecodeString(_)
DecodeString(s) ==
    IF Len(s) < 2 \/ s[1] >= NonHex \/ s[2] >= NonHex
    THEN <<>>
    ELSE <<s[1] * 16 + s[2]>> \o DecodeString(SubSeq(s, 3, Len(s)))

\* plumbing.NewHash: decode, then copy into the fixed-width array
\* (missing bytes stay zero, extra bytes are dropped)
NewHash(s) ==
    LET b == DecodeString(s)
    IN  IF Len(b) >= HashBytes THEN b[1] ELSE ZeroHash

\* a formatting that writes a leading zero, as an octal literal does
RECURSIVE FormatIntPadded(_, _)
FormatIntPadded(n, base) ==
    IF n = 0 THEN <<0>> ELSE FormatIntPadded(n \div base, base) \o <<n % base>>

\* strconv.FormatInt(n, base) for n >= 0: no padding
RECURSIVE FormatInt(_, _)
FormatInt(n, base) ==
    IF n < base THEN <<n>> ELSE FormatInt(n \div base, base) \o <<n % base>>

\* file modes: regular file 0100644, directory 040000, submodule 0160000
ModeFile == 33188
ModeDir == 16384
ModeSubmodule == 57344

----------------------------------------------------------------------------
(* Object store *)

Entry(name, mode, hash) == [Name |-> name, Mode |-> mode, Hash |-> hash]

TreeObj(pack, offset, hash, entries) ==
    [Packfile |-> pack, Offset |-> offset, Hash |-> hash, Entries |-> entries]

\* Two repositories; each packfile starts its objects at the same offset.
\* r1 and r2 share blob b1; tree a1 has a directory entry, tree a3 a
\* submodule entry, tree a4 is empty and the first tree r2 hands over; a5 is
\* a corrupt object of r1.
PoolA ==
    [r1 |-> [ID |-> "r1",
             objs |-> << TreeObj(177, 12, 161, << Entry("a", ModeFile, 11), Entry("d", ModeDir, 162) >>),
                         TreeObj(177, 40, 162, << Entry("a", ModeFile, 12) >>) >>,
             blobs |-> {11, 12},
             broken |-> {165},
             others |-> << >>],
     r2 |-> [ID |-> "r2",
             objs |-> << TreeObj(178, 12, 164, << >>),
                         TreeObj(178, 40, 163, << Entry("a", ModeFile, 11), Entry("s", ModeSubmodule, 193) >>) >>,
             blobs |-> {11},
             broken |-> {},
             others |-> << >>]]

\* One repository with two packfiles; nothing shared, nothing corrupt.
PoolB ==
    [r1 |-> [ID |-> "r1",
             objs |-> << TreeObj(177, 12, 161, << Entry("a", ModeFile, 11) >>),
                         TreeObj(179, 12, 162, << Entry("a", ModeFile, 12), Entry("x", ModeFile, 11) >>) >>,
             blobs |-> {11, 12},
             broken |-> {},
             others |-> << >>]]

\* One repository, one packfile.
PoolC ==
    [r1 |-> [ID |-> "r1",
             objs |-> << TreeObj(177, 12, 161, << Entry("a", ModeFile, 11), Entry("b", ModeFile, 12) >>),
                         TreeObj(177, 40, 162, << Entry("a", ModeFile, 12) >>) >>,
             blobs |-> {11, 12},
             broken |-> {},
             others |-> << >>]]

\* One repository whose object iterator hands over, after its tree, an
\* object that is not a tree.
PoolD ==
    [r1 |-> [ID |-> "r1",
             objs |-> << TreeObj(177, 12, 161, << Entry("a", ModeFile, 11) >>) >>,
             blobs |-> {11},
             broken |-> {},
             others |-> << [Packfile |-> 177, Offset |-> 40, Hash |-> 11] >>]]

Pools == {PoolA, PoolB, PoolC, PoolD}

\* repositories in the order the pool iterates them
RepoOrder(p) == IF "r2" \in DOMAIN p THEN <<"r1", "r2">> ELSE <<"r1">>

\* Repository.Repo.TreeObject(hash)
TreeObject(repo, hash) ==
    IF hash \in repo.broken
    THEN [err |-> "store", tree |-> <<>>]
    ELSE IF \E k \in 1..Len(repo.objs) : repo.objs[k].Hash = hash
    THEN [err |-> "nil",
          tree |-> <<repo.objs[CHOOSE k \in 1..Len(repo.objs) : repo.objs[k].Hash = hash]>>]
    ELSE [err |-> "notfound", tree |-> <<>>]

----------------------------------------------------------------------------
(* tree_entries rows *)

TreeEntriesSchema ==
    <<"repository_id", "tree_entry_name", "blob_hash", "tree_hash", "tree_entry_mode">>

\* treeEntryToRow with the two hashes in each other's place
treeEntryToRowHashesSwapped(repoID, treeHash, entry) ==
    << repoID, entry.Name, HashString(treeHash), HashString(entry.Hash), FormatInt(entry.Mode, 8) >>

treeEntryToRow(repoID, treeHash, entry) ==
    <<repoID, entry.Name, HashString(entry.Hash), HashString(treeHash), FormatInt(entry.Mode, 8)>>

----------------------------------------------------------------------------
(* treeEntryIter: full scan of one repository *)

\* object.TreeIter.Next at position n (trees already returned)
TreeIterNext(repo, n) ==
    IF n >= Len(repo.objs)
    THEN [err |-> "EOF", tree |-> <<>>]
    ELSE [err |-> "nil", tree |-> <<repo.objs[n + 1]>>]

NoScanIter == [repoID |-> "", i |-> 0, tree |-> <<>>, cursor |-> 0]

\* treeEntryIter.NewIterator
newTreeEntryIter(repoID) == [repoID |-> repoID, i |-> 0, tree |-> <<>>, cursor |-> 0]

\* treeEntryIter.Next that takes a tree without entries for the end
RECURSIVE treeEntryIterNextEndsAtEmptyTree(_)
treeEntryIterNextEndsAtEmptyTree(i) ==
    LET r  == TreeIterNext(pool[i.repoID], i.i)
        i1 == IF i.tree = <<>>
              THEN [i EXCEPT !.tree = r.tree,
                             !.i = IF r.err = "nil" THEN @ + 1 ELSE @,
                             !.cursor = IF r.err = "nil" THEN 0 ELSE @]
              ELSE i
    IN  IF i.tree = <<>> /\ r.err # "nil"
        THEN [it |-> i1, res |-> r.err, row |-> <<>>]
        ELSE IF Len(i1.tree[1].Entries) = 0
        THEN [it |-> [i1 EXCEPT !.tree = <<>>], res |-> "EOF", row |-> <<>>]
        ELSE IF i1.cursor >= Len(i1.tree[1].Entries)
        THEN treeEntryIterNextEndsAtEmptyTree([i1 EXCEPT !.tree = <<>>])
        ELSE [it  |-> [i1 EXCEPT !.cursor = @ + 1],
              res |-> "row",
              row |-> treeEntryToRow(i1.repoID, i1.tree[1].Hash, i1.tree[1].Entries[i1.cursor + 1])]

\* treeEntryIter.Next: the whole for loop
RECURSIVE treeEntryIterNext(_)
treeEntryIterNext(i) ==
    LET r  == TreeIterNext(pool[i.repoID], i.i)
        i1 == IF i.tree = <<>>
              THEN [i EXCEPT !.tree = r.tree,
                             !.i = IF r.err = "nil" THEN @ + 1 ELSE @,
                             !.cursor = IF r.err = "nil" THEN 0 ELSE @]
              ELSE i
    IN  IF i.tree = <<>> /\ r.err # "nil"
        THEN [it |-> i1, res |-> r.err, row |-> <<>>]
        ELSE IF i1.cursor >= Len(i1.tree[1].Entries)
        THEN treeEntryIterNext([i1 EXCEPT !.tree = <<>>])
        ELSE [it  |-> [i1 EXCEPT !.cursor = @ + 1],
              res |-> "row",
              row |-> treeEntryToRow(i1.repoID, i1.tree[1].Hash, i1.tree[1].Entries[i1.cursor + 1])]

----------------------------------------------------------------------------
(* treeEntriesByHashIter: point lookup by tree_hash in one repository *)

NoByHashIter == [hashes |-> <<>>, pos |-> 0, tree |-> <<>>, cursor |-> 0, repo |-> ""]

\* treeEntriesByHashIter.NewIterator
newTreeEntriesByHashIter(hashes, repoID) ==
    [hashes |-> hashes, pos |-> 0, tree |-> <<>>, cursor |-> 0, repo |-> repoID]

\* treeEntriesByHashIter.Next with the bug of ending the iteration at a
\* hash the repository does not have, instead of going on to the next one
RECURSIVE treeEntriesByHashIterNextStopsAtMissing(_)
treeEntriesByHashIterNextStopsAtMissing(i) ==
    IF i.pos >= Len(i.hashes) /\ i.tree = <<>>
    THEN [it |-> i, res |-> "EOF", row |-> <<>>]
    ELSE
      LET r  == TreeObject(pool[i.repo], NewHash(i.hashes[i.pos + 1]))
          i1 == IF i.tree = <<>>
                THEN [i EXCEPT !.pos = @ + 1,
                               !.tree = r.tree,
                               !.cursor = IF r.err = "nil" THEN 0 ELSE @]
                ELSE i
      IN  IF i.tree = <<>> /\ r.err = "notfound"
          THEN [it |-> [i1 EXCEPT !.pos = Len(i.hashes)], res |-> "EOF", row |-> <<>>]
          ELSE IF i.tree = <<>> /\ r.err # "nil"
          THEN [it |-> i1, res |-> "err", row |-> <<>>]
          ELSE IF i1.cursor >= Len(i1.tree[1].Entries)
          THEN treeEntriesByHashIterNextStopsAtMissing([i1 EXCEPT !.tree = <<>>])
          ELSE [it  |-> [i1 EXCEPT !.cursor = @ + 1],
                res |-> "row",
                row |-> treeEntryToRow(i1.repo, i1.tree[1].Hash, i1.tree[1].Entries[i1.cursor + 1])]

\* treeEntriesByHashIter.Next that returns the store's not-found error as
\* it returns any other error
RECURSIVE treeEntriesByHashIterNextFailsOnMissing(_)
treeEntriesByHashIterNextFailsOnMissing(i) ==
    IF i.pos >= Len(i.hashes) /\ i.tree = <<>>
    THEN [it |-> i, res |-> "EOF", row |-> <<>>]
    ELSE
      LET r  == TreeObject(pool[i.repo], NewHash(i.hashes[i.pos + 1]))
          i1 == IF i.tree = <<>>
                THEN [i EXCEPT !.pos = @ + 1,
                               !.tree = r.tree,
                               !.cursor = IF r.err = "nil" THEN 0 ELSE @]
                ELSE i
      IN  IF i.tree = <<>> /\ r.err # "nil"
          THEN [it |-> i1, res |-> "err", row |-> <<>>]
          ELSE IF i1.cursor >= Len(i1.tree[1].Entries)
          THEN treeEntriesByHashIterNextFailsOnMissing([i1 EXCEPT !.tree = <<>>])
          ELSE [it  |-> [i1 EXCEPT !.cursor = @ + 1],
                res |-> "row",
                row |-> treeEntryToRow(i1.repo, i1.tree[1].Hash, i1.tree[1].Entries[i1.cursor + 1])]

\* treeEntriesByHashIter.Next: the whole for loop
RECURSIVE treeEntriesByHashIterNext(_)
treeEntriesByHashIterNext(i) ==
    IF i.pos >= Len(i.hashes) /\ i.tree = <<>>
    THEN [it |-> i, res |-> "EOF", row |-> <<>>]
    ELSE
      LET r  == TreeObject(pool[i.repo], NewHash(i.hashes[i.pos + 1]))
          i1 == IF i.tree = <<>>
                THEN [i EXCEPT !.pos = @ + 1,
                               !.tree = r.tree,
                               !.cursor = IF r.err = "nil" THEN 0 ELSE @]
                ELSE i
      IN  IF i.tree = <<>> /\ r.err = "notfound"
          THEN treeEntriesByHashIterNext(i1)
          ELSE IF i.tree = <<>> /\ r.err # "nil"
          THEN [it |-> i1, res |-> "err", row |-> <<>>]
          ELSE IF i1.cursor >= Len(i1.tree[1].Entries)
          THEN treeEntriesByHashIterNext([i1 EXCEPT !.tree = <<>>])
          ELSE [it  |-> [i1 EXCEPT !.cursor = @ + 1],
                res |-> "row",
                row |-> treeEntryToRow(i1.repo, i1.tree[1].Hash, i1.tree[1].Entries[i1.cursor + 1])]

\* selectors.textValues: the values of every selector of the column, in order
RECURSIVE textValues(_)
textValues(sel) ==
    IF sel = <<>> THEN <<>> ELSE Head(sel) \o textValues(Tail(sel))

\* treeEntriesIterBuilder: which iterator the pushed-down selectors give
treeEntriesIterBuilder(sel) ==
    IF Len(sel) = 0 THEN "scan" ELSE "byhash"

----------------------------------------------------------------------------
(* treeEntriesKeyValueIter: the (values, locator) pairs an index is built from *)

RECURSIVE EncodedObjects(_, _)
EncodedObjects(p, repos) ==
    IF repos = <<>> THEN <<>>
    ELSE LET all == p[Head(repos)].objs \o p[Head(repos)].others
         IN  [k \in 1..Len(all) |->
                [RepositoryID |-> Head(repos),
                 Packfile     |-> all[k].Packfile,
                 Offset       |-> all[k].Offset,
                 Object       |-> all[k]]]
         \o EncodedObjects(p, Tail(repos))

\* objectIter.Next at position n: every object the store hands over for
\* plumbing.TreeObject, repository by repository
objectIterNext(n) ==
    LET all == EncodedObjects(pool, RepoOrder(pool))
    IN  IF n >= Len(all)
        THEN [err |-> "EOF", obj |-> <<>>]
        ELSE [err |-> "nil", obj |-> <<all[n + 1]>>]

\* encodeIndexKey(treeEntriesIndexKey{...})
encodeIndexKey(repository, packfile, offset, pos) == <<repository, packfile, offset, pos>>

\* decodeIndexKey(data, &key)
decodeIndexKey(data) ==
    [Repository |-> data[1], Packfile |-> data[2], Offset |-> data[3], Pos |-> data[4]]

\* position of a column in the schema
RECURSIVE ColumnIndex(_, _)
ColumnIndex(schema, name) ==
    IF Head(schema) = name THEN 1 ELSE 1 + ColumnIndex(Tail(schema), name)

\* rowIndexValues(row, columns, schema)
rowIndexValues(row, columns) ==
    [k \in 1..Len(columns) |-> row[ColumnIndex(TreeEntriesSchema, columns[k])]]

NoKeyValueIter == [iter |-> 0, obj |-> <<>>, tree |-> <<>>, pos |-> 0, columns |-> <<>>]

newTreeEntriesKeyValueIter(columns) ==
    [iter |-> 0, obj |-> <<>>, tree |-> <<>>, pos |-> 0, columns |-> columns]

\* obj.Object.(*object.Tree): ok
isTree(object) == "Entries" \in DOMAIN object

\* treeEntriesKeyValueIter.Next that takes the position for the key after
\* incrementing it
RECURSIVE treeEntriesKeyValueIterNextPosAfterIncrement(_)
treeEntriesKeyValueIterNextPosAfterIncrement(i) ==
    LET r  == objectIterNext(i.iter)
        i1 == IF i.tree = <<>>
              THEN IF r.err = "nil"
                   THEN [i EXCEPT !.iter = @ + 1, !.obj = r.obj,
                                  !.tree = IF isTree(r.obj[1].Object)
                                           THEN <<r.obj[1].Object>> ELSE <<>>,
                                  !.pos = 0]
                   ELSE [i EXCEPT !.obj = r.obj]
              ELSE i
    IN  IF i.tree = <<>> /\ r.err # "nil"
        THEN [it |-> i1, res |-> r.err, row |-> <<>>]
        ELSE IF i1.tree = <<>>
        THEN [it |-> i1, res |-> "panic", row |-> <<>>]
        ELSE IF i1.pos >= Len(i1.tree[1].Entries)
        THEN treeEntriesKeyValueIterNextPosAfterIncrement([i1 EXCEPT !.tree = <<>>])
        ELSE LET entry == i1.tree[1].Entries[i1.pos + 1]
                 i2    == [i1 EXCEPT !.pos = @ + 1]
                 key   == encodeIndexKey(i2.obj[1].RepositoryID,
                                         HashString(i2.obj[1].Packfile),
                                         i2.obj[1].Offset,
                                         i2.pos)
                 row   == treeEntryToRow(i2.obj[1].RepositoryID, i2.tree[1].Hash, entry)
             IN  [it  |-> i2,
                  res |-> "row",
                  row |-> [values |-> rowIndexValues(row, i2.columns), key |-> key]]

\* treeEntriesKeyValueIter.Next: the whole for loop. For an object that is
\* not a tree the type assertion leaves i.tree nil, the error built at line
\* 308 is dropped, and len(i.tree.Entries) dereferences the nil tree.
RECURSIVE treeEntriesKeyValueIterNext(_)
treeEntriesKeyValueIterNext(i) ==
    LET r  == objectIterNext(i.iter)
        i1 == IF i.tree = <<>>
              THEN IF r.err = "nil"
                   THEN [i EXCEPT !.iter = @ + 1, !.obj = r.obj,
                                  !.tree = IF isTree(r.obj[1].Object)
                                           THEN <<r.obj[1].Object>> ELSE <<>>,
                                  !.pos = 0]
                   ELSE [i EXCEPT !.obj = r.obj]
              ELSE i
    IN  IF i.tree = <<>> /\ r.err # "nil"
        THEN [it |-> i1, res |-> r.err, row |-> <<>>]
        ELSE IF i1.tree = <<>>
        THEN [it |-> i1, res |-> "panic", row |-> <<>>]
        ELSE IF i1.pos >= Len(i1.tree[1].Entries)
        THEN treeEntriesKeyValueIterNext([i1 EXCEPT !.tree = <<>>])
        ELSE LET entry == i1.tree[1].Entries[i1.pos + 1]
                 i2    == [i1 EXCEPT !.pos = @ + 1]
                 key   == encodeIndexKey(i2.obj[1].RepositoryID,
                                         HashString(i2.obj[1].Packfile),
                                         i2.obj[1].Offset,
                                         i2.pos - 1)
                 row   == treeEntryToRow(i2.obj[1].RepositoryID, i2.tree[1].Hash, entry)
             IN  [it  |-> i2,
                  res |-> "row",
                  row |-> [values |-> rowIndexValues(row, i2.columns), key |-> key]]

----------------------------------------------------------------------------
(* treeEntriesIndexIter: rows resolved from the locators of an index lookup *)

NoIndexIter == [index |-> <<>>, n |-> 0, decoder |-> <<>>, prevTreeOffset |-> 0, tree |-> <<>>]

\* &treeEntriesIndexIter{index: index, pool: session.Pool}
newTreeEntriesIndexIter(index) ==
    [index |-> index, n |-> 0, decoder |-> <<>>, prevTreeOffset |-> 0, tree |-> <<>>]

\* objectDecoder.equals(repo, packfile)
decoderEquals(d, repository, packfile) == d.repo = repository /\ d.packfile = packfile

\* objectDecoder.get(offset): the object of the decoder's packfile at offset
decoderGet(d, offset) ==
    LET objs == pool[d.repo].objs
        hit  == {k \in 1..Len(objs) : objs[k].Packfile = d.packfile /\ objs[k].Offset = offset}
    IN  IF hit = {} THEN [err |-> "store", tree |-> <<>>]
        ELSE [err |-> "nil", tree |-> <<objs[CHOOSE k \in hit : TRUE]>>]

\* whether the cached tree is reused for this locator
reuseTree(i, key) == i.prevTreeOffset = key.Offset

\* the decoder for the locator's packfile, opened without closing the one
\* the iterator holds
decoderForWithoutClose(decoder, repository, packfile, closeErr) ==
    IF decoder # <<>> /\ decoderEquals(decoder[1], repository, packfile)
    THEN [decoder |-> decoder, closed |-> 0, opened |-> 0, err |-> FALSE]
    ELSE [decoder |-> <<[repo |-> repository, packfile |-> packfile]>>,
          closed |-> 0, opened |-> 1, err |-> FALSE]

\* treeEntriesIndexIter.Next, the decoder for the locator's packfile: the
\* one the iterator holds, or a new one after the one it holds was closed;
\* closeErr is what that Close reports. closed and opened count the
\* decoders closed and opened on the way.
decoderFor(decoder, repository, packfile, closeErr) ==
    IF decoder # <<>> /\ decoderEquals(decoder[1], repository, packfile)
    THEN [decoder |-> decoder, closed |-> 0, opened |-> 0, err |-> FALSE]
    ELSE IF decoder # <<>> /\ closeErr
    THEN [decoder |-> decoder, closed |-> 0, opened |-> 0, err |-> TRUE]
    ELSE [decoder |-> <<[repo |-> repository, packfile |-> packfile]>>,
          closed |-> IF decoder # <<>> THEN 1 ELSE 0, opened |-> 1, err |-> FALSE]

\* treeEntriesIndexIter.Next
treeEntriesIndexIterNext(i, closeErr) ==
    IF i.n >= Len(i.index)
    THEN [it |-> i, res |-> "EOF", row |-> <<>>, closed |-> 0, opened |-> 0]
    ELSE
      LET key      == decodeIndexKey(i.index[i.n + 1])
          packfile == NewHash(key.Packfile)
          d  == decoderFor(i.decoder, key.Repository, packfile, closeErr)
          i1 == [i EXCEPT !.n = @ + 1, !.decoder = d.decoder]
          got == decoderGet(i1.decoder[1], key.Offset)
      IN  IF d.err \/ (~reuseTree(i1, key) /\ got.err # "nil")
          THEN [it |-> i1, res |-> "err", row |-> <<>>, closed |-> d.closed, opened |-> d.opened]
          ELSE
            LET i2 == [i1 EXCEPT !.tree = IF reuseTree(i1, key) THEN @ ELSE got.tree,
                                 !.prevTreeOffset = key.Offset]
            IN  IF i2.tree = <<>> \/ key.Pos >= Len(i2.tree[1].Entries)
                THEN [it |-> i2, res |-> "panic", row |-> <<>>,
                      closed |-> d.closed, opened |-> d.opened]
                ELSE [it  |-> i2,
                      res |-> "row",
                      row |-> treeEntryToRow(key.Repository, i2.tree[1].Hash,
                                             i2.tree[1].Entries[key.Pos + 1]),
                      closed |-> d.closed, opened |-> d.opened]

\* plan.NewFilterIter over the pushed-down equality filter: rows whose
\* columns hold the looked-up values
FilterRows(rows, columns, values) ==
    SelectSeq(rows, LAMBDA r : rowIndexValues(r, columns) = values)

----------------------------------------------------------------------------
(* Inputs *)

\* tree_hash texts a query may give: the hashes of trees a1 and a3, the
\* corrupt object a5, a1 followed by two more digits, and a non-hex text
HashTexts ==
    { HashString(161), HashString(163), HashString(165),
      HashString(161) \o <<15, 15>>, <<NonHex, NonHex>> }

SeqsUpTo(S, n) == UNION { [1..k -> S] : k \in 0..n }

\* the selectors on a column: flat cut into selectors after the positions in cuts
RECURSIVE Split(_, _, _)
Split(flat, cuts, from) ==
    IF from > Len(flat) THEN <<>>
    ELSE LET ends == {c \in cuts : c >= from}
             to   == IF ends = {} THEN Len(flat)
                     ELSE CHOOSE c \in ends : \A d \in ends : c <= d
         IN  <<SubSeq(flat, from, to)>> \o Split(flat, cuts, to + 1)

\* column sets an index is created on
IndexColumnSets ==
    { <<"tree_entry_name">>, <<"repository_id">>, <<"tree_hash">>,
      <<"repository_id", "tree_entry_name">> }

\* the orders in which an index may hand back a set of locators
Orderings(S) ==
    { f \in [1..Cardinality(S) -> S] : \A a, b \in 1..Cardinality(S) : f[a] = f[b] => a = b }

SeqToSet(q) == { q[k] : k \in 1..Len(q) }

----------------------------------------------------------------------------
(* The tree_entries table as a state machine *)

NoLookup == [columns |-> <<>>, values |-> <<>>]

\* no Close call yet
NoCloses == [iter |-> 0, decoder |-> 0, index |-> 0, err |-> FALSE, open |-> 0, opened |-> 0]

TreeIdle ==
    /\ live = "none"
    /\ scanIter = NoScanIter
    /\ byHashIter = NoByHashIter
    /\ kvIter = NoKeyValueIter
    /\ indexIter = NoIndexIter
    /\ saved = <<>>
    /\ lookup = NoLookup
    /\ out = <<>>
    /\ last = "none"
    /\ ctxDone = FALSE
    /\ closes = NoCloses

TreeInit ==
    /\ pool \in Pools
    /\ TreeIdle

\* treeEntriesTable.RowIter, for one repository of the pool
RowIter(rid) ==
    /\ live = "none"
    /\ live' = "scan"
    /\ scanIter' = newTreeEntryIter(rid)
    /\ UNCHANGED <<pool, byHashIter, kvIter, indexIter, saved, lookup, out, last, ctxDone, closes, notTree>>

\* treeEntriesTable.WithProjectAndFilters, for one repository of the pool
WithProjectAndFilters(sel, rid) ==
    /\ live = "none"
    /\ IF treeEntriesIterBuilder(sel) = "scan"
       THEN /\ live' = "scan"
            /\ scanIter' = newTreeEntryIter(rid)
            /\ UNCHANGED byHashIter
       ELSE /\ live' = "byhash"
            /\ byHashIter' = newTreeEntriesByHashIter(textValues(sel), rid)
            /\ UNCHANGED scanIter
    /\ UNCHANGED <<pool, kvIter, indexIter, saved, lookup, out, last, ctxDone, closes, notTree>>

\* rowRepoIter.Next, the iterator NewRowRepoIter puts around the iterator
\* of a repository: the cancelled error once the context is done, the
\* result r of the repository's iterator otherwise
rowRepoIterNext(done, i, r) ==
    IF done THEN [it |-> i, res |-> "cancelled", row |-> <<>>] ELSE r

ScanNext ==
    /\ live = "scan"
    /\ LET r == rowRepoIterNext(ctxDone, scanIter, treeEntryIterNext(scanIter))
       IN  /\ scanIter' = r.it
           /\ last' = r.res
           /\ out' = IF r.res = "row" THEN Append(out, r.row) ELSE out
    /\ UNCHANGED <<pool, live, byHashIter, kvIter, indexIter, saved, lookup, ctxDone, closes, notTree>>

ByHashNext ==
    /\ live = "byhash"
    /\ LET r == rowRepoIterNext(ctxDone, byHashIter, treeEntriesByHashIterNext(byHashIter))
       IN  /\ byHashIter' = r.it
           /\ last' = r.res
           /\ out' = IF r.res = "row" THEN Append(out, r.row) ELSE out
    /\ UNCHANGED <<pool, live, scanIter, kvIter, indexIter, saved, lookup, ctxDone, closes, notTree>>

\* treeEntriesTable.IndexKeyValueIter
IndexKeyValueIter(columns) ==
    /\ live = "none"
    /\ live' = "kv"
    /\ kvIter' = newTreeEntriesKeyValueIter(columns)
    /\ UNCHANGED <<pool, scanIter, byHashIter, indexIter, saved, lookup, out, last, ctxDone, closes, notTree>>

KeyValueNext ==
    /\ live = "kv"
    /\ last # "panic"
    /\ LET r == treeEntriesKeyValueIterNext(kvIter)
       IN  /\ kvIter' = r.it
           /\ last' = r.res
           /\ out' = IF r.res = "row" THEN Append(out, r.row) ELSE out
    /\ UNCHANGED <<pool, live, scanIter, byHashIter, indexIter, saved, lookup, ctxDone, closes, notTree>>

\* treeEntriesTable.WithProjectFiltersAndIndex over the locators a saved
\* index holds for the values v, in the order the index hands them back
WithProjectFiltersAndIndex(v, index) ==
    /\ live = "kv"
    /\ last = "EOF"
    /\ live' = "index"
    /\ saved' = out
    /\ lookup' = [columns |-> kvIter.columns, values |-> v]
    /\ indexIter' = newTreeEntriesIndexIter(index)
    /\ kvIter' = NoKeyValueIter
    /\ out' = <<>>
    /\ last' = "none"
    /\ UNCHANGED <<pool, scanIter, byHashIter, ctxDone, closes, notTree>>

\* Next of the iterator WithProjectFiltersAndIndex returns; the table is
\* used as a sql.RowIter, that is, not after Close
IndexNext(closeErr) ==
    /\ live = "index"
    /\ last # "panic"
    /\ closes.iter = 0
    /\ LET r == treeEntriesIndexIterNext(indexIter, closeErr)
       IN  /\ indexIter' = r.it
           /\ last' = r.res
           /\ out' = IF r.res = "row" THEN Append(out, r.row) ELSE out
           /\ closes' = [closes EXCEPT !.open = @ - r.closed + r.opened,
                                       !.opened = @ + r.opened]
    /\ UNCHANGED <<pool, live, scanIter, byHashIter, kvIter, saved, lookup, ctxDone, notTree>>

\* treeEntriesIndexIter.Close: the decoder, when there is one, and the
\* index value iterator are closed on every call, whatever the decoder's
\* Close returns
IndexClose(decoderErr) ==
    /\ live = "index"
    /\ last # "panic"
    /\ closes.iter < MaxCloses
    /\ closes' = [iter    |-> closes.iter + 1,
                  decoder |-> closes.decoder + (IF indexIter.decoder # <<>> THEN 1 ELSE 0),
                  index   |-> closes.index + 1,
                  err     |-> indexIter.decoder # <<>> /\ decoderErr,
                  open    |-> IF indexIter.decoder # <<>> /\ ~decoderErr /\ closes.open > 0
                              THEN closes.open - 1 ELSE closes.open,
                  opened  |-> closes.opened]
    /\ UNCHANGED <<pool, live, scanIter, byHashIter, kvIter, indexIter, saved, lookup, out, last,
                   ctxDone, notTree>>

\* the context of the running query is cancelled
Cancel ==
    /\ live \in {"scan", "byhash", "index"}
    /\ ~ctxDone
    /\ ctxDone' = TRUE
    /\ UNCHANGED <<pool, live, scanIter, byHashIter, kvIter, indexIter, saved, lookup, out, last,
                   closes, notTree>>

\* the query is over: the open iterator is released and the table is ready
\* for the next query
Close ==
    /\ live # "none"
    /\ last # "panic"
    /\ live' = "none"
    /\ scanIter' = NoScanIter
    /\ byHashIter' = NoByHashIter
    /\ kvIter' = NoKeyValueIter
    /\ indexIter' = NoIndexIter
    /\ saved' = <<>>
    /\ lookup' = NoLookup
    /\ out' = <<>>
    /\ last' = "none"
    /\ ctxDone' = FALSE
    /\ closes' = NoCloses
    /\ UNCHANGED <<pool, notTree>>

\* the value tuples of the pairs a drained key value iterator produced
SavedValues == IF live = "kv" THEN { out[k].values : k \in 1..Len(out) } ELSE {}

\* Index.Values(v): the locators saved with the values v
Locators(pairs, v) == { pairs[k].key : k \in { j \in 1..Len(pairs) : pairs[j].values = v } }

TreeNext ==
    \/ \E rid \in DOMAIN pool : RowIter(rid)
    \/ \E flat \in SeqsUpTo(HashTexts, MaxHashes) :
         \E cuts \in SUBSET (1..(Len(flat) - 1)) :
           \E rid \in DOMAIN pool : WithProjectAndFilters(Split(flat, cuts, 1), rid)
    \/ ScanNext
    \/ ByHashNext
    \/ \E columns \in IndexColumnSets : IndexKeyValueIter(columns)
    \/ KeyValueNext
    \/ \E v \in SavedValues :
         \E index \in Orderings(Locators(out, v)) : WithProjectFiltersAndIndex(v, index)
    \/ \E closeErr \in BOOLEAN : IndexNext(closeErr)
    \/ \E decoderErr \in BOOLEAN : IndexClose(decoderErr)
    \/ Cancel
    \/ Close

----------------------------------------------------------------------------
(* Sort *)

Ascending == 1
Descending == 2

\* schema of the child of the Sort
ChildSchema == <<"a", "b">>

SortField(column, order) == [Column |-> column, Order |-> order]

\* NewSort: the position in the child schema of every sort field
fieldIndexes(sortFields) ==
    [k \in 1..Len(sortFields) |-> ColumnIndex(ChildSchema, sortFields[k].Column)]

\* a Compare that never answers 0
CompareNeverEqual(a, b) == IF a < b THEN -1 ELSE 1

\* sql.Type.Compare for integers
Compare(a, b) == IF a < b THEN -1 ELSE IF a > b THEN 1 ELSE 0

\* sorter.Less
Less(indexes, a, b) ==
    \E k \in 1..Len(indexes) : Compare(a[indexes[k]], b[indexes[k]]) = -1

\* sort.Sort: some rearrangement of the rows in which no row comes after
\* a row it is less than (unless the comparator also says the opposite);
\* the order of rows that compare equal is not fixed
SortResults(indexes, rows) ==
    { q \in { [k \in 1..Len(rows) |-> rows[p[k]]] : p \in Permutations(1..Len(rows)) } :
        \A a, b \in 1..Len(q) :
            a < b => ~(Less(indexes, q[b], q[a]) /\ ~Less(indexes, q[a], q[b])) }

\* the child iterator's Next after n items
childNext(items, n) ==
    IF n >= Len(items) THEN [err |-> "EOF", row |-> <<>>]
    ELSE IF items[n + 1].err THEN [err |-> "err", row |-> <<>>]
    ELSE [err |-> "nil", row |-> items[n + 1].row]

\* sortIter.computeSortedRows up to sort.Sort: the rows appended, the
\* child's position and the error returned
RECURSIVE drainChild(_, _, _)
drainChild(items, n, rows) ==
    LET r == childNext(items, n)
    IN  IF r.err = "EOF" THEN [rows |-> rows, n |-> n, err |-> "nil"]
        ELSE IF r.err # "nil" THEN [rows |-> rows, n |-> n + 1, err |-> r.err]
        ELSE drainChild(items, n + 1, Append(rows, r.row))

\* newSortIter
newSortIter == [open |-> TRUE, sortedRows |-> <<>>, idx |-> -1]

NoSortIter == [open |-> FALSE, sortedRows |-> <<>>, idx |-> -1]

\* sortIter.Next after computeSortedRows: the row at idx, or EOF
sortIterRow(i) ==
    IF i.idx >= Len(i.sortedRows)
    THEN [it |-> i, res |-> "EOF", row |-> <<>>]
    ELSE [it |-> [i EXCEPT !.idx = @ + 1], res |-> "row", row |-> i.sortedRows[i.idx + 1]]

\* the integers a column of the Sort's child holds
SortValues == {1, 2}

SortItems ==
    { [err |-> FALSE, row |-> <<a, b>>] : a, b \in SortValues } \cup { [err |-> TRUE, row |-> <<>>] }

SortFieldLists ==
    { <<SortField(c, o)>> : c \in {"a", "b"}, o \in {Ascending, Descending} }
    \cup { <<SortField(c[1], o1), SortField(c[2], o2)>> :
             c \in {<<"a", "b">>, <<"b", "a">>}, o1 \in {Ascending, Descending},
             o2 \in {Ascending, Descending} }

SortIdle ==
    /\ sort = [sortFields |-> <<>>, child |-> <<>>]
    /\ childPos = 0
    /\ sortIter = NoSortIter
    /\ sortOut = <<>>
    /\ sortLast = "none"
    /\ pulled = FALSE

SortInit ==
    /\ sort \in [sortFields : SortFieldLists, child : SeqsUpTo(SortItems, MaxChild)]
    /\ childPos = 0
    /\ sortIter = NoSortIter
    /\ sortOut = <<>>
    /\ sortLast = "none"
    /\ pulled = FALSE

\* Sort.RowIter
SortRowIter ==
    /\ ~sortIter.open
    /\ sortIter' = newSortIter
    /\ UNCHANGED <<sort, childPos, sortOut, sortLast, pulled, notSort>>

\* sortIter.Next
SortNext ==
    /\ sortIter.open
    /\ IF sortIter.idx = -1
       THEN LET d == drainChild(sort.child, childPos, <<>>)
            IN  /\ pulled' = TRUE
                /\ childPos' = d.n
                /\ IF d.err # "nil"
                   THEN /\ sortLast' = d.err
                        /\ UNCHANGED <<sortIter, sortOut>>
                   ELSE \E q \in SortResults(fieldIndexes(sort.sortFields), d.rows) :
                          LET r == sortIterRow([sortIter EXCEPT !.sortedRows = q, !.idx = 0])
                          IN  /\ sortIter' = r.it
                              /\ sortLast' = r.res
                              /\ sortOut' = IF r.res = "row" THEN Append(sortOut, r.row) ELSE sortOut
       ELSE LET r == sortIterRow(sortIter)
            IN  /\ pulled' = FALSE
                /\ sortIter' = r.it
                /\ sortLast' = r.res
                /\ sortOut' = IF r.res = "row" THEN Append(sortOut, r.row) ELSE sortOut
                /\ UNCHANGED childPos
    /\ UNCHANGED <<sort, notSort>>

SortStep == SortRowIter \/ SortNext

----------------------------------------------------------------------------
(* The rows of the table, as the object store holds them *)

\* the rows of one tree, in recorded entry order
TreeRows(repoID, tree) ==
    [k \in 1..Len(tree.Entries) |-> treeEntryToRow(repoID, tree.Hash, tree.Entries[k])]

RECURSIVE TreesRows(_, _)
TreesRows(repoID, trees) ==
    IF trees = <<>> THEN <<>>
    ELSE TreeRows(repoID, Head(trees)) \o TreesRows(repoID, Tail(trees))

\* every row of one repository
RepoRows(repoID) == TreesRows(repoID, pool[repoID].objs)

\* every row of the table
RECURSIVE TableRowsOf(_)
TableRowsOf(repos) ==
    IF repos = <<>> THEN <<>> ELSE RepoRows(Head(repos)) \o TableRowsOf(Tail(repos))

TableRows == TableRowsOf(RepoOrder(pool))

\* the rows of the requested hashes that resolve to a tree of the repository
RECURSIVE HashRows(_, _)
HashRows(repoID, hashes) ==
    IF hashes = <<>> THEN <<>>
    ELSE LET r == TreeObject(pool[repoID], NewHash(Head(hashes)))
         IN  (IF r.err = "nil" THEN TreeRows(repoID, r.tree[1]) ELSE <<>>)
             \o HashRows(repoID, Tail(hashes))

\* the row a locator was computed from
LocatorRow(data) ==
    LET objs == pool[data[1]].objs
        k    == CHOOSE j \in 1..Len(objs) :
                    HashString(objs[j].Packfile) = data[2] /\ objs[j].Offset = data[3]
    IN  treeEntryToRow(data[1], objs[k].Hash, objs[k].Entries[data[4] + 1])

Count(q, x) == Cardinality({ k \in 1..Len(q) : q[k] = x })

\* the two sequences hold the same rows the same number of times
SameRows(p, q) ==
    /\ Len(p) = Len(q)
    /\ \A k \in 1..Len(p) : Count(p, p[k]) = Count(q, p[k])

----------------------------------------------------------------------------
(* The join of tree_entries and blobs, with and without the squash-joins rule *)

\* the blobs table, key columns only: one row per blob of each repository
BlobsSchema == <<"repository_id", "blob_hash">>

RECURSIVE SetToSeq(_)
SetToSeq(S) ==
    IF S = {} THEN <<>>
    ELSE LET m == CHOOSE x \in S : \A y \in S : x <= y
         IN  <<m>> \o SetToSeq(S \ {m})

BlobsRepoRows(repoID) ==
    LET hashes == SetToSeq(pool[repoID].blobs)
    IN  [k \in 1..Len(hashes) |-> <<repoID, HashString(hashes[k])>>]

RECURSIVE BlobsRowsOf(_)
BlobsRowsOf(repos) ==
    IF repos = <<>> THEN <<>> ELSE BlobsRepoRows(Head(repos)) \o BlobsRowsOf(Tail(repos))

BlobsRows == BlobsRowsOf(RepoOrder(pool))

\* an equality between a column of tree_entries and a column of blobs
Equality(left, right) == [left |-> left, right |-> right]

\* the join condition on the concatenated row
EvalCond(cond, row) ==
    \A e \in cond :
        row[ColumnIndex(TreeEntriesSchema, e.left)]
          = row[Len(TreeEntriesSchema) + ColumnIndex(BlobsSchema, e.right)]

\* a filter on a tree_entries column, <<>> for none
EvalFilter(filter, row) ==
    filter = <<>> \/ row[ColumnIndex(TreeEntriesSchema, filter[1])] = filter[2]

\* the squash-joins rule matches the chain: its condition is the
\* admissible edge tree_entries.blob_hash = blobs.blob_hash
SquashJoins(cond) == cond = {Equality("blob_hash", "blob_hash")}

\* Filter over InnerJoin: nested loop over the rows of the two tables
RECURSIVE innerJoinNext(_, _)
innerJoinNext(q, i) ==
    IF i.l >= Len(TableRows)
    THEN [it |-> i, res |-> "EOF", row |-> <<>>]
    ELSE IF i.r >= Len(BlobsRows)
    THEN innerJoinNext(q, [i EXCEPT !.l = @ + 1, !.r = 0])
    ELSE LET row == TableRows[i.l + 1] \o BlobsRows[i.r + 1]
             i1  == [i EXCEPT !.r = @ + 1]
         IN  IF EvalCond(q.cond, row) /\ EvalFilter(q.filter, row)
             THEN [it |-> i1, res |-> "row", row |-> row]
             ELSE innerJoinNext(q, i1)

\* SquashedTable: per repository, the tree_entries stage enumerates the
\* entries and the blobs stage looks the entry's blob up in that repository
RECURSIVE squashedNext(_, _)
squashedNext(q, i) ==
    IF i.repo >= Len(RepoOrder(pool))
    THEN [it |-> i, res |-> "EOF", row |-> <<>>]
    ELSE LET rid  == RepoOrder(pool)[i.repo + 1]
             rows == RepoRows(rid)
         IN  IF i.k >= Len(rows)
             THEN squashedNext(q, [i EXCEPT !.repo = @ + 1, !.k = 0])
             ELSE LET te  == rows[i.k + 1]
                      i1  == [i EXCEPT !.k = @ + 1]
                      row == te \o <<rid, te[3]>>
                  IN  IF NewHash(te[3]) \in pool[rid].blobs /\ EvalFilter(q.filter, row)
                      THEN [it |-> i1, res |-> "row", row |-> row]
                      ELSE squashedNext(q, i1)

JoinConditions ==
    { {Equality("blob_hash", "blob_hash")},
      {Equality("tree_hash", "blob_hash")},
      {Equality("repository_id", "repository_id"), Equality("blob_hash", "blob_hash")} }

JoinFilters == { <<>>, <<"tree_entry_name", "a">> }

NoJoinIter == [l |-> 0, r |-> 0]
NoSquashIter == [repo |-> 0, k |-> 0, l |-> 0, r |-> 0]

SquashIdle ==
    /\ query = [cond |-> {}, filter |-> <<>>]
    /\ joinIter = NoJoinIter
    /\ squashIter = NoSquashIter
    /\ joinOut = <<>>
    /\ squashOut = <<>>
    /\ joinLast = "none"
    /\ squashLast = "none"

SquashInit ==
    /\ pool \in Pools
    /\ query \in [cond : JoinConditions, filter : JoinFilters]
    /\ joinIter = NoJoinIter
    /\ squashIter = NoSquashIter
    /\ joinOut = <<>>
    /\ squashOut = <<>>
    /\ joinLast = "none"
    /\ squashLast = "none"

\* Next on the result of the engine without the squash-joins rule
JoinEngineNext ==
    /\ joinLast # "EOF"
    /\ LET r == innerJoinNext(query, joinIter)
       IN  /\ joinIter' = r.it
           /\ joinLast' = r.res
           /\ joinOut' = IF r.res = "row" THEN Append(joinOut, r.row) ELSE joinOut
    /\ UNCHANGED <<pool, query, squashIter, squashOut, squashLast, notSquash>>

\* Next on the result of the engine with the squash-joins rule
SquashEngineNext ==
    /\ squashLast # "EOF"
    /\ LET r == IF SquashJoins(query.cond)
                THEN squashedNext(query, squashIter)
                ELSE innerJoinNext(query, squashIter)
       IN  /\ squashIter' = r.it
           /\ squashLast' = r.res
           /\ squashOut' = IF r.res = "row" THEN Append(squashOut, r.row) ELSE squashOut
    /\ UNCHANGED <<pool, query, joinIter, joinOut, joinLast, notSquash>>

SquashNext == JoinEngineNext \/ SquashEngineNext

----------------------------------------------------------------------------
(* The session and its bblfsh client *)

bblfshMaxAttempts == 10

\* the goroutines that use one session
Goroutines == {"g1", "g2"}

\* connectivity states a client that is not closed can report
LiveStates == {"Ready", "Idle", "Connecting", "TransientFailure"}

\* bblfsh.Client.GetState: a closed connection reports Shutdown
GetState(client) == IF client = "closed" THEN {"Shutdown"} ELSE LiveStates

\* a goroutine that runs no method of the session, with the result of its
\* last call
NoCall(result) ==
    [pc |-> "idle", op |-> "none", attempts |-> 0, totalAttempts |-> 0, recreated |-> 0,
     onlyFailed |-> TRUE, sawClosed |-> FALSE, closedClient |-> FALSE, lastState |-> "none",
     result |-> result]

\* NewSession
SessionIdle ==
    /\ session = [bblfshMu |-> "", bblfshClient |-> "nil", closed |-> FALSE]
    /\ openClients = 0
    /\ calls = [g \in Goroutines |-> NoCall("none")]

\* a goroutine calls BblfshClient or Close
Call(g, op) ==
    /\ calls[g].pc = "idle"
    /\ calls' = [calls EXCEPT ![g] = [NoCall("none") EXCEPT !.pc = "lock", !.op = op]]
    /\ UNCHANGED <<session, openClients, notSession>>

\* sync.Mutex.Lock returns once nobody holds the mutex
canLockAnyway(mu) == TRUE

canLock(mu) == mu = ""

\* s.bblfshMu.Lock()
Lock(g) ==
    /\ calls[g].pc = "lock"
    /\ canLock(session.bblfshMu)
    /\ session' = [session EXCEPT !.bblfshMu = g]
    /\ calls' = [calls EXCEPT ![g].pc = IF calls[g].op = "Close" THEN "close" ELSE "check"]
    /\ UNCHANGED <<openClients, notSession>>

\* BblfshClient: if s.bblfshClient == nil
CheckClient(g) ==
    /\ calls[g].pc = "check"
    /\ calls' = [calls EXCEPT ![g].pc = IF session.bblfshClient = "nil" THEN "new" ELSE "loop"]
    /\ UNCHANGED <<session, openClients, notSession>>

\* s.bblfshClient, err = bblfsh.NewClient(s.bblfshEndpoint), on first use
\* (pc "new") and after closing a failed client (pc "renew")
NewClient(g, ok) ==
    /\ calls[g].pc \in {"new", "renew"}
    /\ session' = [session EXCEPT !.bblfshClient = IF ok THEN "open" ELSE "nil"]
    /\ openClients' = IF ok THEN openClients + 1 ELSE openClients
    /\ calls' = [calls EXCEPT ![g] =
         IF ~ok THEN [@ EXCEPT !.pc = "unlock", !.result = "err"]
         ELSE IF @.pc = "new" THEN [@ EXCEPT !.pc = "loop"]
         ELSE [@ EXCEPT !.pc = "loop", !.attempts = @ + 1, !.totalAttempts = @ + 1,
                        !.recreated = @ + 1]]
    /\ UNCHANGED notSession

\* the loop's exit test with the total of the attempts left out
giveUpOnAttemptsOnly(attempts, totalAttempts) == attempts > bblfshMaxAttempts

\* attempts > bblfshMaxAttempts || totalAttempts > 3*bblfshMaxAttempts
giveUp(attempts, totalAttempts) ==
    attempts > bblfshMaxAttempts \/ totalAttempts > 3 * bblfshMaxAttempts

\* a client that is still connecting taken for one that can be used
isUsableOrConnecting(st) == st \in {"Ready", "Idle", "Connecting"}

\* case connectivity.Ready, connectivity.Idle
isUsable(st) == st \in {"Ready", "Idle"}

\* one turn of the loop of BblfshClient up to the wait or the Close of the
\* client, for the state st that GetState reports
Loop(g, st) ==
    /\ calls[g].pc = "loop"
    /\ LET c == calls[g]
       IN  IF giveUp(c.attempts, c.totalAttempts)
           THEN /\ calls' = [calls EXCEPT ![g].pc = "unlock", ![g].result = "ErrBblfshConnection"]
                /\ UNCHANGED <<session, openClients>>
           ELSE IF session.bblfshClient = "nil"
           THEN /\ calls' = [calls EXCEPT ![g].pc = "unlock", ![g].result = "panic"]
                /\ UNCHANGED <<session, openClients>>
           ELSE /\ st \in GetState(session.bblfshClient)
                /\ IF isUsable(st)
                   THEN /\ calls' = [calls EXCEPT ![g].pc = "unlock", ![g].result = "client",
                                                  ![g].onlyFailed = FALSE, ![g].lastState = st]
                        /\ UNCHANGED <<session, openClients>>
                   ELSE IF st = "Connecting"
                   THEN /\ calls' = [calls EXCEPT ![g].pc = "sleep", ![g].attempts = 0,
                                                  ![g].onlyFailed = FALSE, ![g].lastState = st]
                        /\ UNCHANGED <<session, openClients>>
                   ELSE IF session.bblfshClient = "open"
                   THEN /\ session' = [session EXCEPT !.bblfshClient = "closed"]
                        /\ openClients' = openClients - 1
                        /\ calls' = [calls EXCEPT ![g].pc = "renew", ![g].lastState = st]
                   ELSE /\ calls' = [calls EXCEPT ![g].pc = "unlock", ![g].result = "err",
                                                  ![g].lastState = st]
                        /\ UNCHANGED <<session, openClients>>
    /\ UNCHANGED notSession

\* time.Sleep(100 * time.Millisecond), then attempts++ and totalAttempts++
Sleep(g) ==
    /\ calls[g].pc = "sleep"
    /\ calls' = [calls EXCEPT ![g].pc = "loop", ![g].attempts = @ + 1, ![g].totalAttempts = @ + 1]
    /\ UNCHANGED <<session, openClients, notSession>>

\* Session.Close between Lock and Unlock
SessionClose(g) ==
    /\ calls[g].pc = "close"
    /\ session' = [session EXCEPT !.closed = TRUE,
                                  !.bblfshClient = IF @ = "open" THEN "closed" ELSE @]
    /\ openClients' = IF session.bblfshClient = "open" THEN openClients - 1 ELSE openClients
    /\ calls' = [calls EXCEPT ![g].pc = "unlock",
                              ![g].sawClosed = session.closed /\ session.bblfshClient = "closed",
                              ![g].closedClient = session.bblfshClient # "nil",
                              ![g].result = IF session.bblfshClient = "closed" THEN "err" ELSE "nil"]
    /\ UNCHANGED notSession

\* defer s.bblfshMu.Unlock(); the method returns
Unlock(g) ==
    /\ calls[g].pc = "unlock"
    /\ session' = [session EXCEPT !.bblfshMu = ""]
    /\ calls' = [calls EXCEPT ![g] = NoCall(@.result)]
    /\ UNCHANGED <<openClients, notSession>>

SessionNext ==
    \E g \in Goroutines :
        \/ \E op \in {"BblfshClient", "Close"} : Call(g, op)
        \/ Lock(g)
        \/ CheckClient(g)
        \/ \E ok \in BOOLEAN : NewClient(g, ok)
        \/ \E st \in LiveStates \cup {"Shutdown"} : Loop(g, st)
        \/ Sleep(g)
        \/ SessionClose(g)
        \/ Unlock(g)

----------------------------------------------------------------------------
(* parseDirectory *)

\* a directory argument: Scheme is "" when the path is not of the form
\* uriReg matches; Path is the path of the URI, or the whole text; Query
\* is the list of key=value pairs after the question mark
Directory(path, format, bucket, rooted, bare) ==
    [Path |-> path, Format |-> format, Bucket |-> bucket, Rooted |-> rooted, Bare |-> bare]

\* uriReg.Match
uriRegMatch(in) == in.Scheme # ""

\* url.ParseRequestURI fails on a path with an invalid percent escape
ParseRequestURI(in) == IF in.Path = "/a%zz" THEN "err" ELSE "nil"

\* url.URL.Query: the values of each key, in the order given; keys are
\* told apart by their exact spelling
Query(pairs) ==
    [k \in { pairs[n][1] : n \in 1..Len(pairs) } |->
        LET at == SelectSeq([n \in 1..Len(pairs) |-> n], LAMBDA n : pairs[n][1] = k)
        IN  [n \in 1..Len(at) |-> pairs[at[n]][2]]]

\* strings.ToLower
ToLower(k) == IF k = "BARE" THEN "bare" ELSE k

\* strconv.Atoi: the number, or -1 for a text that is none
Atoi(val) == IF val = "7" THEN 7 ELSE -1

\* the body of the loop of parseDirectory for the key k with the values v
parseOption(d, k, v) ==
    IF Len(v) # 1 THEN [dir |-> d, err |-> "invalid"]
    ELSE LET val == v[1]
             key == ToLower(k)
         IN  IF key = "format"
             THEN IF val # "siva" /\ val # "git"
                  THEN [dir |-> d, err |-> "invalid"]
                  ELSE [dir |-> [d EXCEPT !.Format = val], err |-> "nil"]
             ELSE IF key = "bare"
             THEN IF val # "true" /\ val # "false"
                  THEN [dir |-> d, err |-> "invalid"]
                  ELSE [dir |-> [d EXCEPT !.Bare = (val = "true")], err |-> "nil"]
             ELSE IF key = "rooted"
             THEN IF val # "true" /\ val # "false"
                  THEN [dir |-> d, err |-> "invalid"]
                  ELSE [dir |-> [d EXCEPT !.Rooted = (val = "true")], err |-> "nil"]
             ELSE IF key = "bucket"
             THEN IF Atoi(val) = -1
                  THEN [dir |-> d, err |-> "invalid"]
                  ELSE [dir |-> [d EXCEPT !.Bucket = Atoi(val)], err |-> "nil"]
             ELSE [dir |-> d, err |-> "invalid"]

\* for k, v := range query, the keys visited in the order keys
RECURSIVE rangeQuery(_, _, _, _)
rangeQuery(d, values, keys, n) ==
    IF n > Len(keys) THEN [dir |-> d, err |-> "nil"]
    ELSE LET r == parseOption(d, keys[n], values[keys[n]])
         IN  IF r.err # "nil" THEN r ELSE rangeQuery(r.dir, values, keys, n + 1)

\* parseDirectory, the map of the query ranged over in the order keys
parseDirectory(in, d, keys) ==
    IF ~uriRegMatch(in) THEN [dir |-> d, err |-> "nil"]
    ELSE IF ParseRequestURI(in) # "nil" THEN [dir |-> d, err |-> "parse"]
    ELSE IF in.Scheme # "file" THEN [dir |-> d, err |-> "scheme"]
    ELSE rangeQuery([d EXCEPT !.Path = in.Path], Query(in.Query), keys, 1)

\* the text of the directory argument
PathText(in) == <<in.Scheme, in.Path, in.Query>>

OptionKeys == {"format", "bare", "BARE", "rooted", "bucket", "other"}
OptionValues == {"git", "siva", "true", "false", "7", "x"}

DirInputs ==
    [Scheme : {"", "file", "http"}, Path : {"/repos", "/a%zz"},
     Query : SeqsUpTo(OptionKeys \X OptionValues, MaxPairs)]

DirIdle == dir = [in |-> <<>>, done |-> FALSE, out |-> <<>>, err |-> "none"]

DirInit == \E in \in DirInputs : dir = [in |-> in, done |-> FALSE, out |-> <<>>, err |-> "none"]

\* parseDirectory on the directory argument, with the defaults of the
\* other fields
ParseDirectory(keys) ==
    /\ ~dir.done
    /\ LET r == parseDirectory(dir.in, Directory(PathText(dir.in), "siva", 2, TRUE, FALSE), keys)
       IN  dir' = [dir EXCEPT !.done = TRUE, !.out = r.dir, !.err = r.err]
    /\ UNCHANGED notDir

DirNext == \E keys \in Orderings(DOMAIN Query(dir.in.Query)) : ParseDirectory(keys)

----------------------------------------------------------------------------
(* The catalog *)

\* a Database: its Name() and the names of its Relations(); the relation
\* named t of the k-th database of the catalog is <<k, t>>
DatabaseNames == {"d1", "d2"}
TableNames == {"t1", "t2"}
Databases == [name : DatabaseNames, relations : SUBSET TableNames]

\* Catalog.Database: the last database of that name
DatabaseLastMatch(c, name) ==
    LET hit == { k \in 1..Len(c) : c[k].name = name }
    IN  IF hit = {} THEN [db |-> 0, err |-> <<"database not found", name>>]
        ELSE [db |-> CHOOSE k \in hit : \A j \in hit : j <= k, err |-> <<>>]

\* Catalog.Database: 0 stands for nil, <<>> for no error
Database(c, name) ==
    LET hit == { k \in 1..Len(c) : c[k].name = name }
    IN  IF hit = {} THEN [db |-> 0, err |-> <<"database not found", name>>]
        ELSE [db |-> CHOOSE k \in hit : \A j \in hit : k <= j, err |-> <<>>]

\* Catalog.Table: <<>> stands for the nil relation
Table(c, dbName, tableName) ==
    LET d == Database(c, dbName)
    IN  IF d.err # <<>> THEN [table |-> <<>>, err |-> d.err]
        ELSE IF tableName \notin c[d.db].relations
        THEN [table |-> <<>>, err |-> <<"table not found", tableName>>]
        ELSE [table |-> <<d.db, tableName>>, err |-> <<>>]

NoTable == [called |-> FALSE, db |-> "", table |-> "", relation |-> <<>>, err |-> <<>>]

CatalogIdle ==
    /\ catalog = <<>>
    /\ found = NoTable

CatalogInit ==
    /\ catalog \in SeqsUpTo(Databases, MaxDatabases)
    /\ found = NoTable

\* a caller looks a table up
CatalogTable(dbName, tableName) ==
    /\ LET r == Table(catalog, dbName, tableName)
       IN  found' = [called |-> TRUE, db |-> dbName, table |-> tableName,
                     relation |-> r.table, err |-> r.err]
    /\ UNCHANGED <<catalog, notCatalog>>

CatalogNext == \E dbName \in DatabaseNames, tableName \in TableNames : CatalogTable(dbName, tableName)

----------------------------------------------------------------------------
(* Comparison expressions *)

\* a text is the sequence of its character codes: "", "1", "a", "b", "foo"
StringValues == {<<>>, <<49>>, <<97>>, <<98>>, <<102, 111, 111>>}
IntegerValues == -1..2

\* GetField(index, type, name).Eval(row)
GetField(index, row) == row[index + 1]

\* String.Compare: the texts compared character by character
RECURSIVE CompareString(_, _)
CompareString(a, b) ==
    IF a = <<>> /\ b = <<>> THEN 0
    ELSE IF a = <<>> THEN -1
    ELSE IF b = <<>> THEN 1
    ELSE IF Head(a) # Head(b) THEN Compare(Head(a), Head(b))
    ELSE CompareString(Tail(a), Tail(b))

\* sql.Type.Compare
TypeCompare(typ, a, b) == IF typ = "String" THEN CompareString(a, b) ELSE Compare(a, b)

\* Eval of NewEquals, NewLessThan and NewGreaterThan over the first two
\* fields of the row
EvalComparison(kind, typ, row) ==
    LET c == TypeCompare(typ, GetField(0, row), GetField(1, row))
    IN  IF kind = "Equals" THEN c = 0
        ELSE IF kind = "LessThan" THEN c = -1
        ELSE c = 1

Comparisons == {"Equals", "LessThan", "GreaterThan"}

ExprIdle == expr = [typ |-> "", row |-> <<>>, results |-> <<>>]

ExprInit ==
    \E typ \in {"String", "Integer"} :
        \E a, b \in (IF typ = "String" THEN StringValues ELSE IntegerValues) :
            expr = [typ |-> typ, row |-> <<a, b>>, results |-> [k \in {} |-> TRUE]]

\* one of the comparisons is evaluated on the row
Eval(kind) ==
    /\ expr.typ # ""
    /\ kind \notin DOMAIN expr.results
    /\ expr' = [expr EXCEPT !.results =
                  [k \in DOMAIN @ \cup {kind} |->
                      IF k = kind THEN EvalComparison(kind, expr.typ, expr.row) ELSE @[k]]]
    /\ UNCHANGED notExpr

ExprNext == \E kind \in Comparisons : Eval(kind)

----------------------------------------------------------------------------
(* Specifications *)

\* the tree_entries table over a pool of repositories
InitTree == TreeInit /\ SortIdle /\ SquashIdle /\ SessionIdle /\ DirIdle /\ CatalogIdle
    /\ ExprIdle

SpecTree == InitTree /\ [][TreeNext]_vars

\* one Sort node over a child iterator
InitSort == SortInit /\ pool = PoolC /\ TreeIdle /\ SquashIdle /\ SessionIdle /\ DirIdle /\ CatalogIdle
    /\ ExprIdle

SpecSort == InitSort /\ [][SortStep]_vars

\* the same join query run by the engines with and without the squash-joins rule
InitSquash == SquashInit /\ TreeIdle /\ SortIdle /\ SessionIdle /\ DirIdle /\ CatalogIdle
    /\ ExprIdle

SpecSquash == InitSquash /\ [][SquashNext]_vars

\* one session used by two goroutines
InitSession == SessionIdle /\ pool = PoolC /\ TreeIdle /\ SortIdle /\ SquashIdle /\ DirIdle /\ CatalogIdle
    /\ ExprIdle

SpecSession == InitSession /\ [][SessionNext]_vars

\* parseDirectory on one directory argument
InitDir == DirInit /\ pool = PoolC /\ TreeIdle /\ SortIdle /\ SquashIdle /\ SessionIdle /\ CatalogIdle
    /\ ExprIdle

SpecDir == InitDir /\ [][DirNext]_vars

\* lookups in one catalog
InitCatalog ==
    CatalogInit /\ pool = PoolC /\ TreeIdle /\ SortIdle /\ SquashIdle /\ SessionIdle /\ DirIdle
    /\ ExprIdle

SpecCatalog == InitCatalog /\ [][CatalogNext]_vars

\* the three comparisons over one row
InitExpr ==
    ExprInit /\ pool = PoolC /\ TreeIdle /\ SortIdle /\ SquashIdle /\ SessionIdle /\ DirIdle
    /\ CatalogIdle

SpecExpr == InitExpr /\ [][ExprNext]_vars

----------------------------------------------------------------------------
(* Properties of the tree_entries table and of the squash-joins rule *)

C2_IndexLookupEqualsFilteredScan ==
    (live = "index" /\ last = "EOF") =>
        SameRows(FilterRows(out, lookup.columns, lookup.values),
                 FilterRows(TableRows, lookup.columns, lookup.values))

\* C5: the point-lookup iterator never returns a row whose tree_hash is not
\* one of the requested tree_hash values.
C5_ByHashRowsAreRequested ==
    live = "byhash" =>
        \A k \in 1..Len(out) : out[k][4] \in SeqToSet(byHashIter.hashes)

\* C6: a point lookup is built only for a non-empty list of hashes and, by
\* the time it returns EOF, has returned every entry of every requested hash
\* that resolves to a tree, hashes in requested order and entries in
\* recorded order; a full scan returns every entry of every tree.
C6_ByHashReturnsAllRequested ==
    /\ live = "byhash" => Len(byHashIter.hashes) > 0
    /\ (live = "byhash" /\ last = "EOF") => out = HashRows(byHashIter.repo, byHashIter.hashes)
    /\ (live = "scan" /\ last = "EOF") => out = RepoRows(scanIter.repoID)

\* C6 witness: a lookup of three hashes, one of them unknown to the
\* repository, has reached EOF after returning rows of two trees.
C6_Witness ==
    /\ live = "byhash"
    /\ last = "EOF"
    /\ Len(byHashIter.hashes) = 3
    /\ \E k \in 1..3 : TreeObject(pool[byHashIter.repo], NewHash(byHashIter.hashes[k])).err = "notfound"
    /\ Len(out) >= 3

\* C7: every Next of the index iterator returns the row its locator was
\* computed from, whatever the order of the locators.
C7_LocatorRoundTrip ==
    live = "index" =>
        /\ last # "panic"
        /\ \A k \in 1..Len(out) : out[k] = LocatorRow(indexIter.index[k])

\* C8: in every row the table returns, tree_hash is the hash of a tree of
\* the row's repository and blob_hash is the hash of one of its blobs, or
\* the zero hash for a submodule entry.
C8_RowHashesExist ==
    live \in {"scan", "byhash", "index"} =>
        \A k \in 1..Len(out) :
            LET repo == pool[out[k][1]]
            IN  /\ \E j \in 1..Len(repo.objs) : out[k][4] = HashString(repo.objs[j].Hash)
                /\ \/ \E b \in repo.blobs : out[k][3] = HashString(b)
                   \/ /\ out[k][5] = FormatInt(ModeSubmodule, 8)
                      /\ out[k][3] = HashString(ZeroHash)

\* C10: once the point-lookup iterator has returned EOF or an error, a
\* later Next returns the same result and no row.
C10_ByHashTerminalIsSticky ==
    [][(live = "byhash" /\ last \in {"EOF", "err"} /\ live' = "byhash")
        => (last' = last /\ out' = out)]_vars

\* the rows of the trees the tree iterator of a full scan has handed over,
\* the tree being read counted up to the cursor
ScannedRows ==
    LET trees == pool[scanIter.repoID].objs
    IN  IF scanIter.tree = <<>>
        THEN TreesRows(scanIter.repoID, SubSeq(trees, 1, scanIter.i))
        ELSE TreesRows(scanIter.repoID, SubSeq(trees, 1, scanIter.i - 1))
             \o SubSeq(TreeRows(scanIter.repoID, scanIter.tree[1]), 1, scanIter.cursor)

\* C22: a full scan of a repository has returned one row for each entry
\* of each tree its tree iterator handed over so far, trees in the
\* iterator's order and entries in recorded order, and it returns EOF only
\* once the tree iterator has handed over every tree.
C22_ScanReturnsEveryEntry ==
    live = "scan" =>
        /\ out = ScannedRows
        /\ last = "EOF" => (scanIter.i = Len(pool[scanIter.repoID].objs) /\ scanIter.tree = <<>>)

\* C22 witness: the scan of a repository whose first tree has no entries
\* has gone on to the rows of its second tree and reached EOF.
C22_Witness ==
    /\ live = "scan"
    /\ last = "EOF"
    /\ Len(pool[scanIter.repoID].objs[1].Entries) = 0
    /\ Len(out) = 2

\* the locator and the row of every entry of every tree object: repository,
\* packfile and offset of the tree object, 0-based index of the entry
EntryLocators ==
    UNION { UNION { { [key |-> <<r, HashString(pool[r].objs[j].Packfile), pool[r].objs[j].Offset, p - 1>>,
                       row |-> treeEntryToRow(r, pool[r].objs[j].Hash, pool[r].objs[j].Entries[p])] :
                      p \in 1..Len(pool[r].objs[j].Entries) } :
                    j \in 1..Len(pool[r].objs) } :
            r \in DOMAIN pool }

\* C23: every pair of a pass of the key-value iterator carries the locator
\* of one tree entry (repository, packfile and offset of its tree object,
\* 0-based index within the tree) with the indexed values of that entry's
\* row, no two pairs carry the same locator, and a finished pass has
\* emitted one pair per tree entry.
C23_OnePairPerEntry ==
    live = "kv" =>
        /\ \A k \in 1..Len(out) :
              \E e \in EntryLocators :
                  /\ out[k].key = e.key
                  /\ out[k].values = rowIndexValues(e.row, kvIter.columns)
        /\ \A k, l \in 1..Len(out) : k # l => out[k].key # out[l].key
        /\ last = "EOF" => Len(out) = Cardinality(EntryLocators)

\* C23 witness: a finished pass over a store with a tree of two entries
C23_Witness ==
    /\ live = "kv"
    /\ last = "EOF"
    /\ \E k, l \in 1..Len(out) :
          /\ out[k].key[4] = 0
          /\ out[l].key[4] = 1
          /\ SubSeq(out[k].key, 1, 3) = SubSeq(out[l].key, 1, 3)

\* C11: a Close of the index iterator after its first Close calls Close
\* neither on the object decoder nor on the index value iterator.
C11_IndexIterCloseIsIdempotent ==
    [][(live = "index" /\ closes.iter >= 1 /\ live' = "index")
        => (closes'.decoder = closes.decoder /\ closes'.index = closes.index)]_vars

\* C12: once the context is cancelled, a Next of a point lookup or of an
\* index lookup returns the cancelled error and no row.
C12_NextAfterCancelIsCancelled ==
    [][(ctxDone /\ ctxDone' /\ live \in {"byhash", "index"} /\ live' = live)
        => (out' = out /\ last' \in {last, "cancelled"})]_vars

\* the value of the column named name in a row of the table
Column(row, name) == row[ColumnIndex(TreeEntriesSchema, name)]

\* C18: every row a full scan, a point lookup or an index lookup returns
\* has as many values as TreeEntriesSchema has columns, each in the
\* position of its column: a repository id, then the name, the hash and
\* the tree hash of an entry of a tree, then the entry's mode in octal.
C18_RowsFollowSchema ==
    live \in {"scan", "byhash", "index"} =>
        \A k \in 1..Len(out) :
            /\ Len(out[k]) = Len(TreeEntriesSchema)
            /\ Len(TreeEntriesSchema) = 5
            /\ Column(out[k], "repository_id") \in DOMAIN pool
            /\ \E rid \in DOMAIN pool : \E t \in 1..Len(pool[rid].objs) :
                 LET tree == pool[rid].objs[t]
                 IN  \E e \in 1..Len(tree.Entries) :
                       /\ Column(out[k], "tree_entry_name") = tree.Entries[e].Name
                       /\ Column(out[k], "blob_hash") = HashString(tree.Entries[e].Hash)
                       /\ Column(out[k], "tree_hash") = HashString(tree.Hash)
                       /\ Column(out[k], "tree_entry_mode") = FormatInt(tree.Entries[e].Mode, 8)

\* C18 witness: rows came back from an index lookup, that is, through the
\* locators and not through a walk of the repository.
C18_Witness ==
    /\ live = "index"
    /\ Len(out) >= 2
    /\ out[1] # out[2]

\* C26: when the object iterator hands the key-value iterator an object
\* that is not a tree, Next returns an invalid-object-type error: no pair,
\* no panic.
C26_NonTreeObjectIsAnError ==
    (live = "kv" /\ kvIter.obj # <<>> /\ ~isTree(kvIter.obj[1].Object)) =>
        /\ last = "ErrInvalidObjectType"
        /\ \A k \in 1..Len(out) : out[k].key[3] # kvIter.obj[1].Offset

\* what the store answers for the k-th requested hash of a point lookup
LookupErr(k) == TreeObject(pool[byHashIter.repo], NewHash(byHashIter.hashes[k])).err

\* C27: a point lookup passes over a requested hash the store does not
\* have, without a row and without an error, and goes on with the hashes
\* after it; an error of the store other than not-found is returned, with
\* no row.
C27_ByHashSkipsMissingHashes ==
    live = "byhash" =>
        /\ last = "err" =>
              /\ byHashIter.pos >= 1
              /\ LookupErr(byHashIter.pos) = "store"
              /\ byHashIter.tree = <<>>
        /\ out = IF byHashIter.tree = <<>>
                 THEN HashRows(byHashIter.repo, SubSeq(byHashIter.hashes, 1, byHashIter.pos))
                 ELSE HashRows(byHashIter.repo, SubSeq(byHashIter.hashes, 1, byHashIter.pos - 1))
                      \o SubSeq(TreeRows(byHashIter.repo, byHashIter.tree[1]), 1, byHashIter.cursor)
        /\ last = "row" =>
              /\ byHashIter.tree # <<>>
              /\ LookupErr(byHashIter.pos) = "nil"

\* C27 witness: a lookup has passed over a hash the store does not have,
\* returned the rows of the tree requested after it, and then returned the
\* store's error for a corrupt object.
C27_Witness ==
    /\ live = "byhash"
    /\ last = "err"
    /\ byHashIter.pos = 3
    /\ LookupErr(1) = "notfound"
    /\ LookupErr(2) = "nil"
    /\ Len(out) >= 1

\* C30: the index iterator has at most one object decoder open: while it
\* is in use the open decoder is the one it holds, opened for another
\* packfile only once the one before was closed; its Close calls Close on
\* the decoder it holds and, whatever that returns, on the index value
\* iterator.
C30_OneDecoderOpen ==
    /\ [](live = "index" =>
            /\ closes.open <= 1
            /\ closes.iter = 0 => closes.open = (IF indexIter.decoder = <<>> THEN 0 ELSE 1))
    /\ [][(live = "index" /\ live' = "index" /\ closes'.iter = closes.iter + 1) =>
            /\ closes'.index = closes.index + 1
            /\ indexIter.decoder # <<>> => closes'.decoder = closes.decoder + 1
            /\ closes'.open <= closes.open]_vars

\* C30 witness: the iterator went from the decoder of one packfile to the
\* decoder of another, and its Close, with the decoder's Close failing, has
\* closed the index value iterator
C30_Witness ==
    /\ live = "index"
    /\ closes.opened >= 2
    /\ closes.iter = 1
    /\ closes.err
    /\ closes.index = 1
    /\ closes.open = 1

\* every entry of every tree object of the store
AllEntries ==
    UNION { UNION { { pool[r].objs[j].Entries[p] : p \in 1..Len(pool[r].objs[j].Entries) } :
                    j \in 1..Len(pool[r].objs) } :
            r \in DOMAIN pool }

\* strconv.ParseInt(text, 8, 64) of a sequence of octal digits
RECURSIVE ParseOctal(_)
ParseOctal(text) ==
    IF text = <<>> THEN 0
    ELSE 8 * ParseOctal(SubSeq(text, 1, Len(text) - 1)) + text[Len(text)]

\* C24: the tree_entry_mode of a row is the mode of its entry in base 8
\* without a leading zero: parsed as octal it gives the mode back, and a
\* directory (040000) reads 40000.
C24_ModeIsUnpaddedOctal ==
    live \in {"scan", "byhash", "index"} =>
        \A k \in 1..Len(out) :
            LET text == Column(out[k], "tree_entry_mode")
            IN  /\ Len(text) >= 1
                /\ \A d \in 1..Len(text) : text[d] \in 0..7
                /\ Len(text) > 1 => text[1] # 0
                /\ \E entry \in AllEntries :
                      /\ Column(out[k], "tree_entry_name") = entry.Name
                      /\ Column(out[k], "blob_hash") = HashString(entry.Hash)
                      /\ ParseOctal(text) = entry.Mode
                      /\ entry.Mode = ModeDir => text = <<4, 0, 0, 0, 0>>

\* C24 witness: a scan has returned the row of a directory entry
C24_Witness ==
    /\ live = "scan"
    /\ \E k \in 1..Len(out) :
          /\ Column(out[k], "tree_entry_mode") = <<4, 0, 0, 0, 0>>
          /\ \E entry \in AllEntries :
                entry.Name = Column(out[k], "tree_entry_name") /\ entry.Mode = ModeDir

----------------------------------------------------------------------------
(* Properties of Sort *)

\* the first sort field two rows differ on, 0 when they tie on every field
FirstDifference(sortFields, a, b) ==
    LET idx  == fieldIndexes(sortFields)
        diff == { k \in 1..Len(idx) : a[idx[k]] # b[idx[k]] }
    IN  IF diff = {} THEN 0 ELSE CHOOSE k \in diff : \A j \in diff : k <= j

\* row a may come before row b under the declared orders
InOrder(sortFields, a, b) ==
    LET k == FirstDifference(sortFields, a, b)
        c == ColumnIndex(ChildSchema, sortFields[k].Column)
    IN  \/ k = 0
        \/ sortFields[k].Order = Ascending /\ a[c] < b[c]
        \/ sortFields[k].Order = Descending /\ a[c] > b[c]

\* the rows of the child, when it yields no error
ChildRows == [k \in 1..Len(sort.child) |-> sort.child[k].row]

ChildFails == \E k \in 1..Len(sort.child) : sort.child[k].err

\* C3: consecutive rows a Sort returns are ordered by the sort fields, each
\* in its declared order.
C3_SortFollowsDeclaredOrder ==
    \A k \in 1..(Len(sortOut) - 1) : InOrder(sort.sortFields, sortOut[k], sortOut[k + 1])

\* C4: rows that tie on every sort field are returned in the order the
\* child produced them.
C4_SortIsStable ==
    (sortLast = "EOF" /\ ~ChildFails) =>
        \A r \in SeqToSet(ChildRows) :
            SelectSeq(sortOut, LAMBDA x : FirstDifference(sort.sortFields, x, r) = 0)
              = SelectSeq(ChildRows, LAMBDA x : FirstDifference(sort.sortFields, x, r) = 0)

\* C19: sorting the rows a Sort returned once more, by the same fields,
\* returns them in the same order.
C19_SortIsIdempotent ==
    (sortLast = "EOF" /\ ~ChildFails) =>
        \A again \in SortResults(fieldIndexes(sort.sortFields), sortOut) : again = sortOut

\* C21: over the rows a Sort has sorted, the comparator is decided by the
\* first sort field the two rows differ on, a later field counting only
\* between rows equal on all earlier fields; it never puts row a before row
\* b and row b before row a.
C21_LessIsLexicographic ==
    sortIter.idx >= 0 =>
        LET idx == fieldIndexes(sort.sortFields)
        IN  \A a, b \in SeqToSet(sortIter.sortedRows) :
              /\ ~(Less(idx, a, b) /\ Less(idx, b, a))
              /\ Less(idx, a, b) =>
                    LET k == FirstDifference(sort.sortFields, a, b)
                    IN  k # 0 /\ Compare(a[idx[k]], b[idx[k]]) = -1

\* the rows the child's Next has returned so far
ProducedRows ==
    LET done == SelectSeq(SubSeq(sort.child, 1, childPos), LAMBDA x : ~x.err)
    IN  [k \in 1..Len(done) |-> done[k].row]

\* C25: the rows a Sort iterator has returned when it returns EOF are the
\* rows its child returned, each as many times as the child returned it,
\* and it returns no row before the child has been read to its end.
C25_SortReturnsChildRows ==
    /\ sortLast = "EOF" => SameRows(sortOut, ProducedRows)
    /\ sortOut # <<>> => childPos = Len(sort.child)

\* C9: once sortIter.Next has returned EOF or an error, a later Next
\* returns the same result, no row, and does not call the child's Next.
C9_SortTerminalIsSticky ==
    [][(sortLast \in {"EOF", "err"} /\ sortIter.open)
        => (sortLast' = sortLast /\ sortOut' = sortOut /\ ~pulled')]_vars

----------------------------------------------------------------------------
(* Properties of the session *)

\* C13: in a call of BblfshClient in which the client only ever reported a
\* failed or shut-down state, the client was closed and created again at
\* most bblfshMaxAttempts times.
C13_AtMostMaxAttemptsRecreations ==
    \A g \in Goroutines :
        (calls[g].op = "BblfshClient" /\ calls[g].onlyFailed) =>
            calls[g].recreated <= bblfshMaxAttempts

\* C28: a call of BblfshClient goes through its loop at most
\* 3 * bblfshMaxAttempts + 1 = 31 times, whatever states the client reports:
\* a turn of the loop returns or leads to the next turn with the count of
\* turns one higher, the count never passes 31, and what the call returns
\* is a client or an error.
C28_BblfshClientTerminates ==
    /\ [](\A g \in Goroutines :
            /\ calls[g].totalAttempts <= 3 * bblfshMaxAttempts + 1
            /\ (calls[g].op = "BblfshClient" /\ calls[g].pc = "unlock") =>
                  calls[g].result \in {"client", "err", "ErrBblfshConnection"})
    /\ [][\A g \in Goroutines :
            (calls[g].op = "BblfshClient" /\ calls'[g] # calls[g]) =>
                /\ calls[g].pc = "loop" => calls'[g].pc \in {"unlock", "sleep", "renew"}
                /\ (calls[g].pc = "loop" /\ calls[g].totalAttempts = 3 * bblfshMaxAttempts + 1) =>
                      calls'[g].pc = "unlock"
                /\ calls[g].pc \in {"sleep", "renew"} =>
                      \/ calls'[g].pc = "unlock"
                      \/ /\ calls'[g].pc = "loop"
                         /\ calls'[g].totalAttempts = calls[g].totalAttempts + 1]_vars

\* C28 witness: a client that reported Connecting every time; the call gives
\* up with the connection error after 31 turns.
C28_Witness ==
    \E g \in Goroutines :
        /\ calls[g].pc = "unlock"
        /\ calls[g].result = "ErrBblfshConnection"
        /\ calls[g].totalAttempts = 3 * bblfshMaxAttempts + 1
        /\ calls[g].attempts = 1
        /\ calls[g].recreated = 0

\* C29: BblfshClient returns a client only when the state it read last
\* from the session's client was Ready or Idle, and it returns that client
\* as it found it: the step that returns it creates no client and closes
\* none.
C29_ReturnsOnlyUsableClient ==
    /\ [](\A g \in Goroutines :
            (calls[g].pc = "unlock" /\ calls[g].result = "client") =>
                /\ calls[g].lastState \in {"Ready", "Idle"}
                /\ session.bblfshClient = "open"
                /\ session.bblfshMu = g)
    /\ [][\A g \in Goroutines :
            (calls[g].pc = "loop" /\ calls'[g].result = "client") =>
                /\ session'.bblfshClient = session.bblfshClient
                /\ openClients' = openClients
                /\ calls'[g].recreated = calls[g].recreated]_vars

\* C29 witness: a call returns the client it found in state Idle, having
\* created none and closed none
C29_Witness ==
    \E g \in Goroutines :
        /\ calls[g].pc = "unlock"
        /\ calls[g].result = "client"
        /\ calls[g].lastState = "Idle"
        /\ calls[g].recreated = 0
        /\ calls[g].totalAttempts = 0

\* C14: when Session.Close returns the client is closed, and a
\* Session.Close that finds the session closed with its client closed calls
\* Close on no client and returns no error.
C14_SessionCloseIsIdempotent ==
    \A g \in Goroutines :
        (calls[g].op = "Close" /\ calls[g].pc = "unlock") =>
            /\ session.bblfshClient # "open"
            /\ calls[g].sawClosed => (~calls[g].closedClient /\ calls[g].result = "nil")

\* C15: at most one goroutine is between Lock and Unlock of the session
\* mutex, it is the holder of the mutex, and at most one client the session
\* created is open.
C15_OneClientOpen ==
    /\ \A g, h \in Goroutines :
          (calls[g].pc \notin {"idle", "lock"} /\ calls[h].pc \notin {"idle", "lock"}) => g = h
    /\ \A g \in Goroutines : calls[g].pc \notin {"idle", "lock"} => session.bblfshMu = g
    /\ openClients <= 1
    /\ openClients = (IF session.bblfshClient = "open" THEN 1 ELSE 0)

\* C15 witness: a goroutine waits for the mutex while the other, holding
\* it, sleeps on a client it created after closing a failed one.
C15_Witness ==
    \E g, h \in Goroutines :
        /\ calls[g].pc = "lock"
        /\ calls[h].pc = "sleep"
        /\ calls[h].recreated >= 1
        /\ openClients = 1

----------------------------------------------------------------------------
(* Properties of parseDirectory *)

\* the values the option key (in lower case) accepts
ValueInDomain(key, val) ==
    IF key = "format" THEN val \in {"git", "siva"}
    ELSE IF key \in {"bare", "rooted"} THEN val \in {"true", "false"}
    ELSE IF key = "bucket" THEN val = "7"
    ELSE TRUE

\* C16: parseDirectory returns an error for a URI whose scheme is not
\* file, or whose query has an unknown key, a key given twice (keys
\* compared without regard to case) or a value outside the key's domain; a
\* path that is no URI is returned unchanged and without error.
C16_ParseDirectoryRejects ==
    dir.done =>
        LET in == dir.in
            q  == in.Query
        IN  /\ ( /\ in.Scheme # ""
                 /\ \/ in.Scheme # "file"
                    \/ \E n \in 1..Len(q) :
                         ToLower(q[n][1]) \notin {"format", "bare", "rooted", "bucket"}
                    \/ \E n, m \in 1..Len(q) : n # m /\ ToLower(q[n][1]) = ToLower(q[m][1])
                    \/ \E n \in 1..Len(q) : ~ValueInDomain(ToLower(q[n][1]), q[n][2]) )
               => dir.err \notin {"nil", "none"}
            /\ in.Scheme = "" =>
                 (dir.err = "nil" /\ dir.out = Directory(PathText(in), "siva", 2, TRUE, FALSE))

----------------------------------------------------------------------------
(* Properties of the catalog *)

\* the databases of the catalog named name, by position
Named(name) == { k \in 1..Len(catalog) : catalog[k].name = name }

\* C17: Table returns a relation and no error exactly when the catalog has
\* a database of that name and the first one has a relation of that name,
\* and then returns that relation; otherwise it returns nil and an error
\* that names the missing database or table; a lookup leaves the catalog
\* as it was.
C17_TableFoundIffPresent ==
    /\ [](found.called =>
            LET hit   == Named(found.db)
                first == CHOOSE k \in hit : \A j \in hit : k <= j
            IN  IF hit # {} /\ found.table \in catalog[first].relations
                THEN found.err = <<>> /\ found.relation = <<first, found.table>>
                ELSE /\ found.relation = <<>>
                     /\ found.err = IF hit = {} THEN <<"database not found", found.db>>
                                    ELSE <<"table not found", found.table>>)
    /\ [][catalog' = catalog]_vars

\* C17 witness: two databases of one name, the table only in the second;
\* the lookup has failed.
C17_Witness ==
    /\ found.called
    /\ Cardinality(Named(found.db)) = 2
    /\ \E k \in Named(found.db) : found.table \in catalog[k].relations
    /\ found.err # <<>>

----------------------------------------------------------------------------
(* Properties of the comparison expressions *)

\* a comes before b: as integers, or as texts in dictionary order
Before(typ, a, b) ==
    IF typ = "Integer" THEN a < b
    ELSE \E n \in 0..Len(b) - 1 :
           /\ n <= Len(a)
           /\ \A k \in 1..n : a[k] = b[k]
           /\ (n = Len(a) \/ a[n + 1] < b[n + 1])

====
